---- MODULE Spec2Model ----
(***************************************************************************)
(* Sales dashboard: the load -> prepare -> KPI / advanced-metrics pipeline *)
(* of loader.py, data_prep.py, metrics.py and the part of app.py main()    *)
(* that drives it.                                                         *)
(*                                                                         *)
(* Amounts are whole numbers.  Margin_% is held in tenths of a percent.    *)
(* A quotient is held as a fraction [num, den] in lowest terms.  Dates are *)
(* day numbers counted from Monday 23 December 2024 (day 0), with the time  *)
(* of day in seconds.                                                       *)
(***************************************************************************)
EXTENDS Integers, Sequences, FiniteSets, TLC

VARIABLES
    pc,        \* position of the current rerun of main()
    file,      \* the selected uploaded file: extension, header, raw rows
    raw_df,    \* what load_data returned
    df,        \* what prepare_data returned
    kpis,      \* what compute_kpis returned
    err,       \* the exception in flight / caught by main()
    shown,     \* what st.error displayed
    calls,     \* the pipeline functions entered during this rerun, in order
    adv,       \* what compute_advanced_metrics returned
    fkpis,     \* the forecast dates summed into the forecasted KPIs shown
    snapshot,  \* a copy of what the first prepare_data returned, taken before a second call
    users,     \* the users table of users.db: username -> row
    sess,      \* st.session_state of each browser session (login part)
    event,     \* the latest database call or rerun: what was called, with what, to what end
    recent,    \* the password most recently set for each username
    cache,     \* st.session_state of the dashboard: uploaded files and stored results
    ui         \* the widget values of the latest rerun of the dashboard

vars == <<pc, file, raw_df, df, kpis, err, shown, calls, adv, fkpis, snapshot,
          users, sess, event, recent, cache, ui>>

\* the state of the pipeline, of the login database and sessions, and of the
\* dashboard session
pipeVars == <<pc, file, raw_df, df, kpis, err, shown, calls, adv, fkpis, snapshot>>
authVars == <<users, sess, event, recent>>
dashVars == <<cache, ui>>

----------------------------------------------------------------------------
(* Bounds of the model *)

MaxMissing == 2       \* most required columns a generated file lacks
MaxRows == 2          \* most rows of a generated amounts table
MaxDateRows == 2      \* most rows of a generated dates table
MaxDays == 11         \* most days of a generated table of daily orders
MaxCustomerRows == 3  \* most rows of a generated customers table
MaxParseRows == 2     \* most rows of a generated table of cells to parse

----------------------------------------------------------------------------
(* Generic helpers *)

NONE == "None"

\* the sequences over S of length at most n
SeqsUpTo(S, n) == UNION {[1..k -> S] : k \in 0..n}

Range(s) == {s[i] : i \in 1..Len(s)}

\* every ordering of the finite set S, as a sequence
Orderings(S) ==
    {s \in [1..Cardinality(S) -> S] : \A i, j \in 1..Cardinality(S) : i # j => s[i] # s[j]}

Abs(x) == IF x < 0 THEN -x ELSE x

RECURSIVE GCD(_, _)
GCD(a, b) == IF b = 0 THEN a ELSE GCD(b, a % b)

\* the quotient n / d (d # 0) in lowest terms with a positive denominator
Frac(n, d) ==
    LET g == GCD(Abs(n), Abs(d))
        s == IF d < 0 THEN -1 ELSE 1
    IN  [num |-> (s * n) \div g, den |-> (s * d) \div g]

Zero == [num |-> 0, den |-> 1]

----------------------------------------------------------------------------
(* config.py / loader.py: the required columns *)

REQUIRED_COLUMNS ==
    << "Order", "Account", "Name", "Address", "Description", "Type", "Entered", "Sent",
       "Qty", "List", "Nett", "Cost", "Route", "Reference", "P'list", "FOC", "O/T", "Promo" >>

\* the usecols list handed to the reader
usecols == REQUIRED_COLUMNS

RequiredSet == Range(REQUIRED_COLUMNS)

SupportedExt == {".xlsx", ".xls", ".csv"}

NoTable == [cols |-> {}, rows |-> <<>>]

NoErr == [type |-> NONE, text |-> "", names |-> <<>>]

ValueError(text, names) == [type |-> "ValueError", text |-> text, names |-> names]

\* [col for col in REQUIRED_COLUMNS if col not in columns]
MissingColumns(columns) == SelectSeq(REQUIRED_COLUMNS, LAMBDA c : c \notin columns)

\* pandas' reader with usecols=<list of names>: the list is turned into a set,
\* and names of it that the header lacks make the reader raise, listing them
\* in the set's iteration order (any order).  Otherwise only the usecols
\* columns are kept.
ReadOutcomes(f) ==
    LET wanted  == Range(usecols)
        lacking == wanted \ f.cols
    IN  IF lacking # {}
        THEN {[ok |-> FALSE,
               error |-> ValueError("Usecols do not match columns, columns expected but not found", o),
               table |-> NoTable] : o \in Orderings(lacking)}
        ELSE {[ok |-> TRUE, error |-> NoErr,
               table |-> [cols |-> f.cols \cap wanted, rows |-> f.rows]]}

\* load_data(file_path): every outcome the call can have on file f
LoadOutcomes(f) ==
    IF f.ext \notin SupportedExt
    THEN {[ok |-> FALSE,
           error |-> ValueError("Unsupported file type. Please upload .xlsx, .xls, or .csv", <<>>),
           table |-> NoTable]}
    ELSE {IF ~r.ok THEN r
          ELSE LET missing == MissingColumns(r.table.cols)
               IN  IF missing # <<>>
                   THEN [ok |-> FALSE,
                         error |-> ValueError("Missing required columns", missing),
                         table |-> NoTable]
                   ELSE r
          : r \in ReadOutcomes(f)}

----------------------------------------------------------------------------
(* Cells.  A raw cell is text (a sequence of characters; the empty text is  *)
(* a missing cell, which the reader returns as NaN).  A typed cell is a     *)
(* float, a datetime, or the null of its kind.                              *)

Txt(s)  == [kind |-> "str",      s |-> s,    v |-> 0, t |-> 0]
Num(v)  == [kind |-> "float",    s |-> <<>>, v |-> v, t |-> 0]
DateTime(d, secs) == [kind |-> "datetime", s |-> <<>>, v |-> d, t |-> secs]
Date(d) == DateTime(d, 0)
NaN     == [kind |-> "nan",      s |-> <<>>, v |-> 0, t |-> 0]
NaT     == [kind |-> "nat",      s |-> <<>>, v |-> 0, t |-> 0]

\* what dtype=str reading makes of a cell's text
Cell(s) == IF s = <<>> THEN NaN ELSE Txt(s)

\* pd.isnull
isnull(c) == c.kind \in {"nan", "nat"}

Digits == {"0", "1", "2", "3", "4", "5", "6", "7", "8", "9"}

DigitVal(ch) ==
    CASE ch = "0" -> 0 [] ch = "1" -> 1 [] ch = "2" -> 2 [] ch = "3" -> 3 [] ch = "4" -> 4
      [] ch = "5" -> 5 [] ch = "6" -> 6 [] ch = "7" -> 7 [] ch = "8" -> 8 [] ch = "9" -> 9

IsDigits(s) == Len(s) > 0 /\ \A i \in 1..Len(s) : s[i] \in Digits

RECURSIVE DecVal(_)
DecVal(s) == IF s = <<>> THEN 0 ELSE 10 * DecVal(SubSeq(s, 1, Len(s) - 1)) + DigitVal(s[Len(s)])

\* config.py NUMERIC_COLS
NUMERIC_COLS == << "Qty", "List", "Nett", "Cost" >>

\* to_numeric with 0 for what cannot be read
to_numeric_fillzero(c) ==
    CASE c.kind = "float" -> c
      [] c.kind = "str" ->
            IF IsDigits(c.s) THEN Num(DecVal(c.s))
            ELSE IF Len(c.s) > 1 /\ c.s[1] = "-" /\ IsDigits(Tail(c.s)) THEN Num(-DecVal(Tail(c.s)))
            ELSE Num(0)
      [] OTHER -> Num(0)

\* pd.to_numeric(cell, errors='coerce') on one cell
to_numeric(c) ==
    CASE c.kind = "float" -> c
      [] c.kind = "str" ->
            IF IsDigits(c.s) THEN Num(DecVal(c.s))
            ELSE IF Len(c.s) > 1 /\ c.s[1] = "-" /\ IsDigits(Tail(c.s)) THEN Num(-DecVal(Tail(c.s)))
            ELSE NaN
      [] OTHER -> NaN

----------------------------------------------------------------------------
(* Dates.  Day 0 is Monday 23 December 2024; the calendar of the model     *)
(* covers December 2024 and January 2025.                                  *)

ValidDMY(d, m, y) ==
    /\ d \in 1..31
    /\ (m = 12 /\ y = 2024) \/ (m = 1 /\ y = 2025)

DayNumber(d, m, y) == IF m = 12 THEN d - 23 ELSE d + 8

\* text "dd/mm/yyyy" at the head of s
IsDMYText(s) ==
    /\ Len(s) >= 10
    /\ s[3] = "/" /\ s[6] = "/"
    /\ IsDigits(SubSeq(s, 1, 2)) /\ IsDigits(SubSeq(s, 4, 5)) /\ IsDigits(SubSeq(s, 7, 10))
    /\ ValidDMY(DecVal(SubSeq(s, 1, 2)), DecVal(SubSeq(s, 4, 5)), DecVal(SubSeq(s, 7, 10)))

DMYDay(s) == DayNumber(DecVal(SubSeq(s, 1, 2)), DecVal(SubSeq(s, 4, 5)), DecVal(SubSeq(s, 7, 10)))

\* text " HH:MM:SS"
IsHMSText(s) ==
    /\ Len(s) = 9
    /\ s[1] = " " /\ s[4] = ":" /\ s[7] = ":"
    /\ IsDigits(SubSeq(s, 2, 3)) /\ IsDigits(SubSeq(s, 5, 6)) /\ IsDigits(SubSeq(s, 8, 9))
    /\ DecVal(SubSeq(s, 2, 3)) < 24 /\ DecVal(SubSeq(s, 5, 6)) < 60 /\ DecVal(SubSeq(s, 8, 9)) < 60

\* the seconds since midnight of the text " HH:MM:SS"
HMSSeconds(s) ==
    3600 * DecVal(SubSeq(s, 2, 3)) + 60 * DecVal(SubSeq(s, 5, 6)) + DecVal(SubSeq(s, 8, 9))

\* a datetime in seconds since the midnight that starts day 0
Stamp(c) == 86400 * c.v + c.t

date_formats == << "%d/%m/%Y", "%d/%m/%Y %H:%M:%S" >>

\* whether one cell parses under a strict format (nulls and datetimes pass)
Matches(c, fmt) ==
    CASE c.kind = "str" ->
            IF fmt = "%d/%m/%Y" THEN Len(c.s) = 10 /\ IsDMYText(c.s)
            ELSE Len(c.s) = 19 /\ IsDMYText(c.s) /\ IsHMSText(SubSeq(c.s, 11, 19))
      [] c.kind = "float" -> FALSE
      [] OTHER -> TRUE

\* ParsedDate that reads text only
ParsedDateTextOnly(c) ==
    CASE c.kind = "str" ->
            DateTime(DMYDay(c.s), IF Len(c.s) = 19 THEN HMSSeconds(SubSeq(c.s, 11, 19)) ELSE 0)
      [] OTHER -> NaT

\* the value of a cell that parses
ParsedDate(c) ==
    CASE c.kind = "str" ->
            DateTime(DMYDay(c.s), IF Len(c.s) = 19 THEN HMSSeconds(SubSeq(c.s, 11, 19)) ELSE 0)
      [] c.kind = "datetime" -> c
      [] OTHER -> NaT

\* pd.to_datetime(column, format=fmt, errors='raise'): raises unless every cell parses
StrictParses(cells, fmt) == \A i \in 1..Len(cells) : Matches(cells[i], fmt)

\* LenientDate that leaves alone what it cannot read
LenientDateKeeps(c) ==
    IF \E i \in 1..Len(date_formats) : Matches(c, date_formats[i]) THEN ParsedDate(c) ELSE c

\* pd.to_datetime(column, errors='coerce', dayfirst=True): a cell that cannot
\* be read becomes NaT
LenientDate(c) ==
    IF \E i \in 1..Len(date_formats) : Matches(c, date_formats[i]) THEN ParsedDate(c) ELSE NaT

\* data_prep.py lines 17-27 for one column
ParseDateColumn(cells) ==
    IF \E i \in 1..Len(date_formats) : StrictParses(cells, date_formats[i])
    THEN [i \in 1..Len(cells) |-> ParsedDate(cells[i])]
    ELSE [i \in 1..Len(cells) |-> LenientDate(cells[i])]

Column(rows, col) == [i \in 1..Len(rows) |-> rows[i][col]]

----------------------------------------------------------------------------
(* data_prep.py: prepare_data *)

\* Nett - Cost on floats: NaN when either is NaN
Minus(a, b) == IF isnull(a) \/ isnull(b) THEN NaN ELSE Num(a.v - b.v)

\* n / d rounded to the nearest integer, halves to the even neighbour (d # 0)
RoundHalfEven(n, d) ==
    LET nn == IF d < 0 THEN -n ELSE n
        dd == Abs(d)
        q  == nn \div dd
        r  == nn - q * dd
    IN  IF 2 * r < dd THEN q
        ELSE IF 2 * r > dd THEN q + 1
        ELSE IF q % 2 = 0 THEN q ELSE q + 1

\* np.round(Gross_Margin / Nett * 100, 1), in tenths of a percent
MarginOf(gross, nett) ==
    IF isnull(gross) \/ isnull(nett) THEN NaN ELSE Num(RoundHalfEven(1000 * gross.v, nett.v))

\* MarginMask as  df['Nett'] > 0
MarginMaskPositive(nett) == ~isnull(nett) /\ nett.v > 0

\* mask = df['Nett'] != 0  (NaN != 0 is True)
MarginMask(nett) == isnull(nett) \/ nett.v # 0

PrepareRow(r, entered, sent) ==
    LET qty   == to_numeric(r.Qty)
        list  == to_numeric(r.List)
        nett  == to_numeric(r.Nett)
        cost  == to_numeric(r.Cost)
        gross == Minus(nett, cost)
    IN  [Order |-> r.Order, Name |-> r.Name, Entered |-> entered, Sent |-> sent,
         Qty |-> qty, List |-> list, Nett |-> nett, Cost |-> cost,
         Gross_Margin |-> gross,
         Margin_pct |-> IF MarginMask(nett) THEN MarginOf(gross, nett) ELSE NaN]

\* prepare_data that drops the rows with a numeric cell that did not parse
prepare_data_dropna(t) ==
    LET entered == ParseDateColumn(Column(t.rows, "Entered"))
        sent    == ParseDateColumn(Column(t.rows, "Sent"))
        rows    == [i \in 1..Len(t.rows) |-> PrepareRow(t.rows[i], entered[i], sent[i])]
    IN  [cols |-> t.cols \cup {"Gross_Margin", "Margin_%"},
         rows |-> SelectSeq(rows, LAMBDA r :
                      \A k \in 1..Len(NUMERIC_COLS) : ~isnull(r[NUMERIC_COLS[k]]))]

prepare_data(t) ==
    LET entered == ParseDateColumn(Column(t.rows, "Entered"))
        sent    == ParseDateColumn(Column(t.rows, "Sent"))
    IN  [cols |-> t.cols \cup {"Gross_Margin", "Margin_%"},
         rows |-> [i \in 1..Len(t.rows) |-> PrepareRow(t.rows[i], entered[i], sent[i])]]

----------------------------------------------------------------------------
(* metrics.py: compute_kpis *)

\* holidays.country_holidays('GB') as get_uk_holidays() returns it: a mapping
\* that holds no date until a year is looked up in it, and nothing in the
\* program looks one up.
get_uk_holidays == {}

\* the dates the GB calendar stands for within the model's calendar:
\* Christmas Day, Boxing Day (2024) and New Year's Day (2025)
GBHolidays == {2, 3, 9}

IsWeekday(d) == d % 7 \in 0..4

\* pd.bdate_range(start, end, holidays=h) with the default freq 'B': a
\* non-empty h (or a weekmask) without a custom frequency raises ValueError;
\* otherwise the Monday-to-Friday dates from start to end, each at start's
\* time of day.
bdate_range(start, end, h) ==
    IF h # {}
    THEN [raised |-> TRUE, days |-> {}]
    ELSE [raised |-> FALSE,
          days |-> {d \in start.v..end.v : IsWeekday(d) /\ 86400 * d + start.t <= Stamp(end)}]

\* business_days that returns None for a row whose Sent is before its Entered
business_days_excluding(row) ==
    IF isnull(row.Entered) \/ isnull(row.Sent) \/ Stamp(row.Sent) < Stamp(row.Entered)
    THEN [raised |-> FALSE, none |-> TRUE, n |-> 0]
    ELSE LET r    == bdate_range(row.Entered, row.Sent, get_uk_holidays)
             days == Cardinality(r.days)
         IN  [raised |-> r.raised, none |-> FALSE,
              n |-> IF days > 0 THEN days - 1 ELSE 0]

\* business_days(row): None for a row missing a date
business_days(row) ==
    IF isnull(row.Entered) \/ isnull(row.Sent)
    THEN [raised |-> FALSE, none |-> TRUE, n |-> 0]
    ELSE LET r    == bdate_range(row.Entered, row.Sent, get_uk_holidays)
             days == Cardinality(r.days)
         IN  [raised |-> r.raised, none |-> FALSE,
              n |-> IF days > 0 THEN days - 1 ELSE 0]

\* SumCol over the first row of each Order only (duplicates dropped)
SumColFirstPerOrder(rows, col) ==
    LET RECURSIVE Upto(_)
        Upto(n) ==
            IF n = 0 THEN 0
            ELSE Upto(n - 1) +
                 (IF isnull(rows[n][col]) \/ \E j \in 1..(n - 1) : rows[j].Order = rows[n].Order
                  THEN 0 ELSE rows[n][col].v)
    IN  Upto(Len(rows))

\* Series.sum(): NaN cells are skipped
RECURSIVE SumCol(_, _)
SumCol(rows, col) ==
    IF rows = <<>> THEN 0
    ELSE (IF isnull(Head(rows)[col]) THEN 0 ELSE Head(rows)[col].v) + SumCol(Tail(rows), col)

\* Mean with NaN cells counted in the denominator
MeanOverAllRows(cells) ==
    LET RECURSIVE Total(_)
        Total(q) == IF q = <<>> THEN 0
                    ELSE (IF isnull(Head(q)) THEN 0 ELSE Head(q).v) + Total(Tail(q))
    IN  IF cells = <<>> THEN [num |-> 0, den |-> 0] ELSE Frac(Total(cells), Len(cells))

\* Series.mean(): NaN cells are skipped; NaN (0/0) when nothing is left
Mean(cells) ==
    LET kept == SelectSeq(cells, LAMBDA c : ~isnull(c))
        RECURSIVE Total(_)
        Total(q) == IF q = <<>> THEN 0 ELSE Head(q).v + Total(Tail(q))
    IN  IF kept = <<>> THEN [num |-> 0, den |-> 0] ELSE Frac(Total(kept), Len(kept))

\* df['Order'].unique(): the distinct cells, NaN among them
unique(cells) == Range(cells)

\* nunique with NaN counted as a value
nuniqueWithNaN(values) == Cardinality(values)

\* Series.nunique(): NaN is not counted
nunique(values) == Cardinality({c \in values : ~isnull(c)})

\* empty that is never true
emptyNever(t) == FALSE

\* DataFrame.empty
empty(t) == Len(t.rows) = 0 \/ t.cols = {}

\* avg_order_value without the guard: a float division by zero gives inf or NaN
avg_order_value_unguarded(total_nett, total_orders) ==
    IF total_orders # 0 THEN Frac(total_nett, total_orders) ELSE [num |-> total_nett, den |-> 0]

\* total_nett / total_orders if total_orders else 0
avg_order_value(total_nett, total_orders) ==
    IF total_orders # 0 THEN Frac(total_nett, total_orders) ELSE Zero

NoKpis ==
    [raised |-> FALSE, computed |-> FALSE, TotalNettSales |-> 0, TotalOrders |-> 0,
     TotalUnitsSold |-> 0, AverageOrderValue |-> Zero, AverageMargin |-> Zero,
     AverageTurnaround |-> Zero]

compute_kpis(t) ==
    LET total_nett   == SumCol(t.rows, "Nett")
        total_orders == nunique(unique(Column(t.rows, "Order")))
        total_units  == SumCol(t.rows, "Qty")
        avg_order    == avg_order_value(total_nett, total_orders)
        avg_margin   == IF ~empty(t) THEN Mean(Column(t.rows, "Margin_pct")) ELSE Zero
        turnaround   == [i \in 1..Len(t.rows) |-> business_days(t.rows[i])]
        dropna       == SelectSeq(turnaround, LAMBDA b : ~b.none)
        avg_turn     == IF dropna # <<>>
                        THEN Mean([i \in 1..Len(dropna) |-> Num(dropna[i].n)])
                        ELSE Zero
    IN  IF \E i \in 1..Len(turnaround) : turnaround[i].raised
        THEN [NoKpis EXCEPT !.raised = TRUE]
        ELSE [raised |-> FALSE, computed |-> TRUE,
              TotalNettSales |-> total_nett, TotalOrders |-> total_orders,
              TotalUnitsSold |-> total_units, AverageOrderValue |-> avg_order,
              AverageMargin |-> avg_margin, AverageTurnaround |-> avg_turn]

----------------------------------------------------------------------------
(* metrics.py: compute_advanced_metrics.  A series is the sequence of its   *)
(* entries [ds, y] in index order, ds a datetime in seconds; a series that *)
(* Prophet predicted is the sequence of its index, the predicted values     *)
(* being the library's.                                                     *)

\* .sort_index(): the ascending sequence of a finite set of integers
RECURSIVE sort_index(_)
sort_index(S) ==
    IF S = {} THEN <<>>
    ELSE LET m == CHOOSE x \in S : \A y \in S : x <= y
         IN  << m >> \o sort_index(S \ {m})

\* the group keys of df.groupby('Entered'): the distinct Entered values, NaT dropped
GroupKeys(t) ==
    {Stamp(t.rows[i].Entered) : i \in {j \in 1..Len(t.rows) : ~isnull(t.rows[j].Entered)}}

\* the rows of one group
Group(t, ds) == SelectSeq(t.rows, LAMBDA r : ~isnull(r.Entered) /\ Stamp(r.Entered) = ds)

\* daily = df.groupby('Entered')['Nett'].sum().sort_index()
daily(t) ==
    LET k == sort_index(GroupKeys(t))
    IN  [i \in 1..Len(k) |-> [ds |-> k[i], y |-> SumCol(Group(t, k[i]), "Nett")]]

\* daily_orders = df.groupby('Entered')['Order'].nunique().sort_index()
daily_orders(t) ==
    LET k == sort_index(GroupKeys(t))
    IN  [i \in 1..Len(k) |-> [ds |-> k[i], y |-> nunique(unique(Column(Group(t, k[i]), "Order")))]]

RECURSIVE SumY(_)
SumY(series) == IF series = <<>> THEN 0 ELSE Head(series).y + SumY(Tail(series))

\* the window of daily.rolling(7)
RollingWindow == 7

\* daily.rolling(7).mean(): NaN until seven entries are in the window
rolling_mean(series) ==
    [i \in 1..Len(series) |->
        [ds |-> series[i].ds,
         y  |-> IF i < RollingWindow THEN [num |-> 0, den |-> 0]
                ELSE Frac(SumY(SubSeq(series, i - RollingWindow + 1, i)), RollingWindow)]]

\* the days of  pd.Timedelta(days=30)
InactiveDays == 30

\* df['Entered'].max(): NaT when no row has a date
MaxEntered(t) ==
    IF GroupKeys(t) = {} THEN [nat |-> TRUE, ds |-> 0]
    ELSE [nat |-> FALSE, ds |-> CHOOSE x \in GroupKeys(t) : \A y \in GroupKeys(t) : y <= x]

\* recent_customers with the comparison  df['Entered'] >= cutoff
recent_customers_inclusive(t) ==
    LET last   == MaxEntered(t)
        cutoff == last.ds - 86400 * InactiveDays
    IN  IF last.nat THEN {}
        ELSE {r.Name : r \in {q \in Range(t.rows) : ~isnull(q.Entered) /\ Stamp(q.Entered) >= cutoff}}

\* recent_customers = set(df[df['Entered'] > cutoff]['Name']); every
\* comparison with a NaT cutoff or a NaT Entered is False
recent_customers(t) ==
    LET last   == MaxEntered(t)
        cutoff == last.ds - 86400 * InactiveDays
    IN  IF last.nat THEN {}
        ELSE {r.Name : r \in {q \in Range(t.rows) : ~isnull(q.Entered) /\ Stamp(q.Entered) > cutoff}}

\* all_customers = set(df['Name'])
all_customers(t) == {r.Name : r \in Range(t.rows)}

\* the number of entries a series must exceed for a fit
MinObserved == 10

\* len(forecast_df) > 10 and len(forecast_orders_df) > 10
fit_guard(forecast_df, forecast_orders_df) ==
    Len(forecast_df) > MinObserved /\ Len(forecast_orders_df) > MinObserved

\* Prophet.make_future_dataframe(periods) and predict(): the index of the
\* prediction is the history followed by the periods days after its last entry
predict_index(history, periods) ==
    [i \in 1..(Len(history) + periods) |->
        IF i <= Len(history) THEN history[i].ds
        ELSE history[Len(history)].ds + 86400 * (i - Len(history))]

\* the factor of  mean - 2 * std
StdFactor == 2

\* daily[daily < mean - 2 * std].index.tolist(), std being the sample
\* standard deviation: with n entries of sum S and sum of squares Q,
\*   y < S/n - 2 * sqrt((n*Q - S*S) / (n*(n-1)))
\* is  S - n*y > 0  and  (n-1) * (S - n*y)^2 > 4 * n * (n*Q - S*S).
\* With fewer than two entries mean or std is NaN and nothing compares below it.
low_days(series) ==
    LET n == Len(series)
        S == SumY(series)
        Q == SumY([i \in 1..n |-> [ds |-> series[i].ds, y |-> series[i].y * series[i].y]])
        low == SelectSeq(series, LAMBDA e :
                   /\ n >= 2
                   /\ S - n * e.y > 0
                   /\ (n - 1) * (S - n * e.y) * (S - n * e.y) > StdFactor * StdFactor * n * (n * Q - S * S))
    IN  [i \in 1..Len(low) |-> low[i].ds]

NoAdv ==
    [returned |-> FALSE, ma7 |-> <<>>, inactive_customers |-> <<>>,
     forecast |-> <<>>, forecast_lower |-> <<>>, forecast_upper |-> <<>>,
     forecast_orders |-> <<>>, low_days |-> <<>>]

\* compute_advanced_metrics(df, forecast_days): every outcome of one call.
\* Prophet's fit and predict either return or raise; nothing in the function
\* catches what they raise.  list(set) puts the customers in an order of the
\* set's choosing.
AdvancedOutcomes(t, forecast_days) ==
    LET forecast_df        == daily(t)
        forecast_orders_df == daily_orders(t)
        fit                == fit_guard(forecast_df, forecast_orders_df)
        inactive           == all_customers(t) \ recent_customers(t)
        nett_index         == IF fit THEN predict_index(forecast_df, forecast_days) ELSE <<>>
        orders_index       == IF fit THEN predict_index(forecast_orders_df, forecast_days) ELSE <<>>
    IN  { [raised |-> FALSE, fit |-> fit,
           results |-> [returned |-> TRUE,
                        ma7 |-> rolling_mean(forecast_df),
                        inactive_customers |-> names,
                        forecast |-> nett_index,
                        forecast_lower |-> nett_index,
                        forecast_upper |-> nett_index,
                        forecast_orders |-> orders_index,
                        low_days |-> low_days(forecast_df)]] : names \in Orderings(inactive) }
        \cup (IF fit THEN { [raised |-> TRUE, fit |-> TRUE, results |-> NoAdv] } ELSE {})

\* the trim with the last observed date kept:  index >= last_actual
future_inclusive(series, last_actual) ==
    SelectSeq(series, LAMBDA ds : ~last_actual.nat /\ ds >= last_actual.ds)

\* series[series.index > last_actual]
future(series, last_actual) ==
    SelectSeq(series, LAMBDA ds : ~last_actual.nat /\ ds > last_actual.ds)

NoForecastKpis ==
    [shown |-> FALSE, forecast_future |-> <<>>, forecast_lower |-> <<>>,
     forecast_upper |-> <<>>, forecast_orders_future |-> <<>>]

\* app.py lines 502-517: the forecast dates whose predictions are summed
\* into the forecasted KPIs, shown when both predictions are non-empty
forecast_kpis(a, filtered_df) ==
    IF a.forecast # <<>> /\ a.forecast_orders # <<>>
    THEN LET last_actual == MaxEntered(filtered_df)
         IN  [shown |-> TRUE,
              forecast_future |-> future(a.forecast, last_actual),
              forecast_lower |-> future(a.forecast_lower, last_actual),
              forecast_upper |-> future(a.forecast_upper, last_actual),
              forecast_orders_future |-> future(a.forecast_orders, last_actual)]
    ELSE NoForecastKpis

----------------------------------------------------------------------------
(* Generated inputs *)

Chr == << "0", "1", "2", "3", "4", "5", "6", "7", "8", "9" >>

TwoDigits(n) == << Chr[(n \div 10) + 1], Chr[(n % 10) + 1] >>

\* the text "dd/mm/yyyy" of a day number
DateText(day) ==
    IF day <= 8
    THEN TwoDigits(day + 23) \o << "/", "1", "2", "/", "2", "0", "2", "4" >>
    ELSE TwoDigits(day - 8) \o << "/", "0", "1", "/", "2", "0", "2", "5" >>

\* Tuesday 24 to Sunday 29 December 2024
GenDays == 1..6

OrderTexts == { <<>>, << "A", "1" >>, << "A", "2" >> }
NettTexts  == { <<>>, << "0" >>, << "8", "0" >>, << "-", "3", "0" >> }
\* a quantity and a cost
QtyCostTexts ==
    { << << "3" >>, << "7", "9" >> >>,
      << << "3" >>, << "a", "b", "c" >> >>,
      << <<>>, << "a", "b", "c" >> >> }
DateTexts  == { <<>> } \cup { DateText(d) : d \in GenDays }

\* a row as read: the text of each of its cells
FullRow(order, name, entered, sent, qty, list, nett, cost) ==
    [Order |-> Cell(order), Name |-> Cell(name), Entered |-> Cell(entered), Sent |-> Cell(sent),
     Qty |-> Cell(qty), List |-> Cell(list), Nett |-> Cell(nett), Cost |-> Cell(cost)]

\* a row of customer X with list price 9
RawRow(order, entered, sent, qty, nett, cost) ==
    FullRow(order, << "X" >>, entered, sent, qty, << "9" >>, nett, cost)

\* rows that differ in their order id and amounts
AmountRows ==
    { RawRow(o, DateText(0), DateText(1), qc[1], n, qc[2]) :
        o \in OrderTexts, n \in NettTexts, qc \in QtyCostTexts }

\* rows that differ in their dates
DateRows ==
    { RawRow(<< "A", "1" >>, e, t, << "3" >>, << "8", "0" >>, << "7", "9" >>) :
        e \in DateTexts, t \in DateTexts }

Morning   == << " ", "0", "9", ":", "0", "0", ":", "0", "0" >>
Afternoon == << " ", "1", "5", ":", "3", "0", ":", "0", "0" >>

\* one order of customer X on each of the n days from day 0, of Nett 100 but
\* for the first, whose Nett is the text given; with
\*   "same":  a second order on day 0, of Nett 100
\*   "timed": every Entered at 09:00:00
\*   "later": every Entered at 09:00:00 and a second order on day 0 at 15:30:00
DailyRows(n, first, extra) ==
    LET time == IF extra \in {"timed", "later"} THEN Morning ELSE <<>>
        base == [i \in 1..n |->
                    RawRow(<< "A", "1" >>, DateText(i - 1) \o time, <<>>, << "3" >>,
                           IF i = 1 THEN first ELSE << "1", "0", "0" >>, << "7", "9" >>)]
        more == RawRow(<< "A", "2" >>,
                       DateText(0) \o (IF extra = "later" THEN Afternoon ELSE <<>>),
                       <<>>, << "3" >>, << "1", "0", "0" >>, << "7", "9" >>)
    IN  IF extra \in {"same", "later"} THEN base \o << more >> ELSE base

\* text that is neither a date nor a number
Junk == << "n", "/", "a" >>

\* the texts of Qty, List, Nett and Cost of a generated row
NumberTexts ==
    { << << "3" >>, << "9" >>, << "8", "0" >>, << "7", "9" >> >>,
      << Junk, <<>>, << "0" >>, << "7", "9" >> >>,
      << << "3" >>, Junk, Junk, << "-", "3", "0" >> >>,
      << <<>>, << "9" >>, << "-", "3", "0" >>, Junk >> }

\* the texts of Entered and Sent of a generated row
DatePairTexts ==
    { << DateText(1), DateText(2) >>,
      << DateText(1) \o Morning, DateText(2) \o Afternoon >>,
      << Junk, <<>> >>,
      << <<>>, Junk >>,
      << DateText(9), DateText(9) \o Morning >> }

\* rows that differ in how their cells parse
ParseRows ==
    { FullRow(<< "A", "1" >>, << "X" >>, d[1], d[2], n[1], n[2], n[3], n[4]) :
        d \in DatePairTexts, n \in NumberTexts }

LoadedTable(rows) == [cols |-> RequiredSet, rows |-> rows]

\* the tables of daily orders over at most n days
DailyTables(n) ==
    { LoadedTable(DailyRows(k, f, x)) :
        k \in 1..n, f \in { << "0" >>, << "1", "0", "0" >> },
        x \in {"none", "same", "timed", "later"} }

\* 22 December 2024, 1 and 26 January 2025, 31 January 2025: 40, 30 and 5
\* days before the last, and the last
CustomerDays == {-1, 9, 34, 39}

\* rows that differ in their customer and the date of the order
CustomerRows ==
    { FullRow(<< "A", "1" >>, name, e, <<>>, << "3" >>, << "9" >>, << "8", "0" >>, << "7", "9" >>) :
        name \in { << "X" >>, << "Y" >> },
        e \in { <<>> } \cup { DateText(d) : d \in CustomerDays } }

\* the loaded tables of at most n rows drawn from a set of rows
TablesOf(rows, n) == { LoadedTable(r) : r \in SeqsUpTo(rows, n) }

\* the rows of the files of the pipeline runs
SampleRows ==
    { << RawRow(<< "A", "1" >>, DateText(0), DateText(1), << "3" >>, << "8", "0" >>, << "7", "9" >>) >>,
      << RawRow(<< "A", "1" >>, DateText(1), <<>>, << "3" >>, << "0" >>, << "7", "9" >>),
         RawRow(<< "A", "1" >>, DateText(0), DateText(4), <<>>, << "-", "3", "0" >>, << "a", "b", "c" >>) >> }

\* the required columns a generated file may lack
Droppable == {"Order", "Entered", "Nett", "O/T", "Promo"}

\* headers: the required columns less at most MaxMissing of the droppable
\* ones, with or without a column the dashboard does not use
Headers ==
    { (RequiredSet \ m) \cup x :
        m \in {k \in SUBSET Droppable : Cardinality(k) <= MaxMissing},
        x \in { {}, {"Notes"} } }

Files ==
    [ext : {".csv", ".xlsx", ".xls", ".txt"}, cols : Headers, rows : SampleRows]

NoFile == [ext |-> "", cols |-> {}, rows |-> <<>>]

----------------------------------------------------------------------------
(* app.py: the users table and the functions that read and write it.  A    *)
(* bcrypt hash is held as the password it was made from; the empty string  *)
(* register_user stores is the hash that is not set.                        *)

Usernames == {"amy", "bob"}
Passwords == {"p1", "p2"}
Sessions  == {"s1", "s2"}

\* password_hash = '' (line 80)
NoHash == [set |-> FALSE, of |-> ""]

\* bcrypt.hashpw(password.encode(), bcrypt.gensalt())
hashpw(password) == [set |-> TRUE, of |-> password]

\* bcrypt.checkpw(password.encode(), password_hash)
checkpw(password, password_hash) == password_hash.set /\ password_hash.of = password

\* no row of that username
NoRow == [exists |-> FALSE, password_hash |-> NoHash, status |-> "", is_admin |-> 0]

\* init_db() on a new database: the table is empty
NoUsers == [u \in Usernames |-> NoRow]

\* create_admin_user(username, password) (lines 52-70): insert or update
create_admin_user(db, username, password) ==
    [db EXCEPT ![username] =
        [exists |-> TRUE, password_hash |-> hashpw(password), status |-> "approved", is_admin |-> 1]]

\* register_user(username) (lines 72-83): False when the username is taken
register_user(db, username) ==
    IF db[username].exists
    THEN [success |-> FALSE, db |-> db]
    ELSE [success |-> TRUE,
          db |-> [db EXCEPT ![username] =
                    [exists |-> TRUE, password_hash |-> NoHash, status |-> "pending", is_admin |-> 0]]]

\* UPDATE users SET password_hash = ? WHERE username = ?  (lines 85-91, 133-139)
set_user_password(db, username, password) ==
    IF db[username].exists
    THEN [db EXCEPT ![username].password_hash = hashpw(password)]
    ELSE db

reset_user_password(db, username, new_password) == set_user_password(db, username, new_password)

\* UPDATE users SET password_hash = ? WHERE is_admin = 1  (lines 141-147)
reset_admin_password(db, new_password) ==
    [u \in Usernames |->
        IF db[u].exists /\ db[u].is_admin = 1
        THEN [db[u] EXCEPT !.password_hash = hashpw(new_password)]
        ELSE db[u]]

\* UPDATE users SET status = ... WHERE username = ?  (lines 149-161)
set_status(db, username, status) ==
    IF db[username].exists THEN [db EXCEPT ![username].status = status] ELSE db

approve_user(db, username) == set_status(db, username, "approved")
reject_user(db, username)  == set_status(db, username, "rejected")

\* DELETE FROM users WHERE username = ?  (lines 126-131)
delete_user(db, username) == [db EXCEPT ![username] = NoRow]

\* is_admin_user(username) (lines 163-169)
is_admin_user(db, username) == db[username].exists /\ db[username].is_admin = 1

\* check_login_db that asks for no status
check_login_db_any_status(db, username, password) ==
    LET row == db[username]
    IN  IF ~row.exists THEN "False"
        ELSE IF ~row.password_hash.set THEN "set_password"
        ELSE IF checkpw(password, row.password_hash) THEN "True"
        ELSE "False"

\* check_login_db(username, password) (lines 93-108): True, False or "set_password"
check_login_db(db, username, password) ==
    LET row == db[username]
    IN  IF ~row.exists THEN "False"
        ELSE IF (row.status = "approved" \/ row.is_admin = 1) /\ ~row.password_hash.set
        THEN "set_password"
        ELSE IF (row.status = "approved" \/ row.is_admin = 1) /\ row.password_hash.set
                /\ checkpw(password, row.password_hash)
        THEN "True"
        ELSE "False"

\* an empty st.session_state
NoSession ==
    [authenticated |-> FALSE, current_user |-> "", is_admin |-> FALSE,
     set_password_user |-> "", show_admin_panel |-> FALSE]

\* nothing has been called
NoCall ==
    [op |-> "", session |-> "", username |-> "", password |-> "", result |-> "",
     was_set |-> FALSE, reached |-> {}]

\* nobody has a password
NoRecent == [u \in Usernames |-> ""]

\* the login database and the sessions before anything has run
AuthIdle ==
    /\ users = NoUsers
    /\ sess = [s \in Sessions |-> NoSession]
    /\ event = NoCall
    /\ recent = NoRecent

\* the filter widgets before they have a value
NoFilters ==
    [start_date |-> 0, end_date |-> 0, selected_name |-> "", selected_ot |-> "",
     freq |-> "", forecast_days |-> 0]

\* the dashboard's part of st.session_state and the values its widgets
\* hold, before the first rerun
NoCache ==
    [uploaded_files |-> {}, last_file_name |-> "", widgets |-> NoFilters,
     has_kpis |-> FALSE, last_kpi_filters |-> NoFilters, last_kpis |-> NoKpis,
     has_forecast |-> FALSE, last_forecast_key |-> <<>>, last_forecast_adv |-> NoAdv]

\* no rerun has reached the dashboard: nothing is displayed
NoUi ==
    [ran |-> FALSE, filtered_df |-> NoTable, forecast_days |-> 0,
     kpis |-> NoKpis, reused_kpis |-> FALSE,
     forecast_shown |-> FALSE, adv |-> NoAdv, reused_forecast |-> FALSE]

DashIdle ==
    /\ cache = NoCache
    /\ ui = NoUi

----------------------------------------------------------------------------
(* app.py main(): one rerun of the pipeline *)

Init ==
    /\ pc = "idle"
    /\ file = NoFile
    /\ raw_df = NoTable
    /\ df = NoTable
    /\ kpis = NoKpis
    /\ err = NoErr
    /\ shown = NoErr
    /\ calls = <<>>
    /\ adv = NoAdv
    /\ fkpis = NoForecastKpis
    /\ snapshot = NoTable
    /\ AuthIdle
    /\ DashIdle

\* a file is uploaded / selected and the script reruns (lines 351-368)
SelectFile ==
    /\ pc = "idle"
    /\ \E f \in Files : file' = f
    /\ pc' = "load"
    /\ UNCHANGED <<raw_df, df, kpis, err, shown, calls, adv, fkpis, snapshot, authVars, dashVars>>

\* LoadData with the exception swallowed: the rerun goes on with what was read
LoadDataGoesOn ==
    /\ pc = "load"
    /\ calls' = Append(calls, "load_data")
    /\ \E o \in LoadOutcomes(file) :
          /\ raw_df' = IF o.ok THEN o.table ELSE [cols |-> file.cols, rows |-> file.rows]
          /\ pc' = "prepare"
          /\ err' = o.error
    /\ UNCHANGED <<file, df, kpis, shown, adv, fkpis, snapshot, authVars, dashVars>>

\* raw_df = load_data(tmp_path) (line 381); an exception leaves the try block
LoadData ==
    /\ pc = "load"
    /\ calls' = Append(calls, "load_data")
    /\ \E o \in LoadOutcomes(file) :
          IF o.ok
          THEN /\ raw_df' = o.table
               /\ pc' = "prepare"
               /\ err' = err
          ELSE /\ raw_df' = raw_df
               /\ pc' = "except"
               /\ err' = o.error
    /\ UNCHANGED <<file, df, kpis, shown, adv, fkpis, snapshot, authVars, dashVars>>

\* df = prepare_data(raw_df) (line 385); the frame is changed in place and returned
PrepareData ==
    /\ pc = "prepare"
    /\ calls' = Append(calls, "prepare_data")
    /\ df' = prepare_data(raw_df)
    /\ raw_df' = df'
    /\ pc' = "kpis"
    /\ UNCHANGED <<file, kpis, err, shown, adv, fkpis, snapshot, authVars, dashVars>>

\* the default date range of the date filter (lines 396-404, 413-414): from
\* the date of the least Entered to the date of the greatest, each taken at
\* midnight; a row whose Entered is NaT is in no range
DefaultFilter(t) ==
    LET days == {t.rows[i].Entered.v : i \in {j \in 1..Len(t.rows) : ~isnull(t.rows[j].Entered)}}
    IN  [t EXCEPT !.rows =
            SelectSeq(t.rows, LAMBDA r :
                /\ ~isnull(r.Entered)
                /\ \E d \in days : 86400 * d <= Stamp(r.Entered)
                /\ \E d \in days : Stamp(r.Entered) <= 86400 * d)]

KpiError == [type |-> "ValueError", text |-> "a custom frequency string is required", names |-> <<>>]

\* kpis = compute_kpis(filtered_df) (lines 413-439) with the filters at their defaults
MainKpis ==
    /\ pc = "kpis"
    /\ calls' = Append(calls, "compute_kpis")
    /\ LET k == compute_kpis(DefaultFilter(df))
       IN  IF k.raised
           THEN /\ kpis' = kpis
                /\ err' = KpiError
                /\ pc' = "except"
           ELSE /\ kpis' = k
                /\ err' = err
                /\ pc' = "forecast"
    /\ UNCHANGED <<file, raw_df, df, shown, adv, fkpis, snapshot, authVars, dashVars>>

\* what Prophet raised
FitError == [type |-> "Exception", text |-> "Prophet", names |-> <<>>]

\* the functions one call of compute_advanced_metrics enters
AdvancedCalls(o) ==
    << "compute_advanced_metrics" >> \o (IF o.fit THEN << "Prophet.fit" >> ELSE <<>>)

\* st.number_input(min_value=7, max_value=180, value=30) (line 487)
ForecastDays == {7, 30}

\* the Run Forecast and Show Advanced Metrics buttons (lines 487-517, 750-757):
\* compute_advanced_metrics(filtered_df, forecast_days) runs when one is
\* pressed, and Run Forecast goes on to the forecasted KPIs; what the call
\* raises leaves the try block
MainAdvanced ==
    /\ pc = "forecast"
    /\ \E pressed \in {"none", "Run Forecast", "Show Advanced Metrics"}, forecast_days \in ForecastDays :
          IF pressed = "none"
          THEN /\ pc' = "done"
               /\ UNCHANGED <<calls, adv, fkpis, err>>
          ELSE \E o \in AdvancedOutcomes(DefaultFilter(df), forecast_days) :
                  /\ calls' = calls \o AdvancedCalls(o)
                  /\ IF o.raised
                     THEN /\ err' = FitError
                          /\ pc' = "except"
                          /\ UNCHANGED <<adv, fkpis>>
                     ELSE /\ adv' = o.results
                          /\ fkpis' = IF pressed = "Run Forecast"
                                      THEN forecast_kpis(o.results, DefaultFilter(df))
                                      ELSE fkpis
                          /\ err' = err
                          /\ pc' = "done"
    /\ UNCHANGED <<file, raw_df, df, kpis, shown, snapshot, authVars, dashVars>>

\* except Exception as e: st.error(f"Error: {e}") (lines 759-762)
SurfaceError ==
    /\ pc = "except"
    /\ shown' = err
    /\ pc' = "done"
    /\ UNCHANGED <<file, raw_df, df, kpis, err, calls, adv, fkpis, snapshot, authVars, dashVars>>

\* the script has run to its end; the next interaction starts a new rerun
Rerun ==
    /\ pc = "done"
    /\ pc' = "idle"
    /\ file' = NoFile
    /\ raw_df' = NoTable
    /\ df' = NoTable
    /\ kpis' = NoKpis
    /\ err' = NoErr
    /\ shown' = NoErr
    /\ calls' = <<>>
    /\ adv' = NoAdv
    /\ fkpis' = NoForecastKpis
    /\ snapshot' = NoTable
    /\ UNCHANGED <<authVars, dashVars>>

Next ==
    SelectFile \/ LoadData \/ PrepareData \/ MainKpis \/ MainAdvanced \/ SurfaceError \/ Rerun

Spec == Init /\ [][Next]_vars

----------------------------------------------------------------------------
(* compute_kpis as a function of its table: prepare_data, then compute_kpis *)
(* on all of the prepared rows                                              *)

ComputeKpis ==
    /\ pc = "kpis"
    /\ calls' = Append(calls, "compute_kpis")
    /\ kpis' = compute_kpis(df)
    /\ pc' = "done"
    /\ UNCHANGED <<file, raw_df, df, err, shown, adv, fkpis, snapshot, authVars, dashVars>>

InitTable(rows, n) ==
    /\ pc = "prepare"
    /\ raw_df \in TablesOf(rows, n)
    /\ file = [ext |-> ".csv", cols |-> raw_df.cols, rows |-> raw_df.rows]
    /\ df = NoTable
    /\ kpis = NoKpis
    /\ err = NoErr
    /\ shown = NoErr
    /\ calls = << "load_data" >>
    /\ adv = NoAdv
    /\ fkpis = NoForecastKpis
    /\ snapshot = NoTable
    /\ AuthIdle
    /\ DashIdle

NextKpi == PrepareData \/ ComputeKpis

InitAmounts == InitTable(AmountRows, MaxRows)
SpecAmounts == InitAmounts /\ [][NextKpi]_vars

InitDates == InitTable(DateRows, MaxDateRows)
SpecDates == InitDates /\ [][NextKpi]_vars

----------------------------------------------------------------------------
(* prepare_data as a function of its table, applied once and then again to *)
(* its own result                                                           *)

\* prepare_data(df) on the frame the first call returned; the frame is again
\* changed in place and returned
PrepareAgain ==
    /\ pc = "kpis"
    /\ calls' = Append(calls, "prepare_data")
    /\ snapshot' = df
    /\ df' = prepare_data(df)
    /\ raw_df' = df'
    /\ pc' = "again"
    /\ UNCHANGED <<file, kpis, err, shown, adv, fkpis, authVars, dashVars>>

NextPrepare == PrepareData \/ PrepareAgain

InitPrepare == InitTable(ParseRows, MaxParseRows)
SpecPrepare == InitPrepare /\ [][NextPrepare]_vars

----------------------------------------------------------------------------
(* compute_advanced_metrics as a function of its table: prepare_data, then  *)
(* compute_advanced_metrics on all of the prepared rows, then the forecasted *)
(* KPIs of app.py lines 502-517                                              *)

ComputeAdvanced ==
    /\ pc = "kpis"
    /\ \E forecast_days \in ForecastDays : \E o \in AdvancedOutcomes(df, forecast_days) :
          /\ calls' = calls \o AdvancedCalls(o)
          /\ IF o.raised
             THEN /\ err' = FitError
                  /\ adv' = adv
                  /\ pc' = "raised"
             ELSE /\ err' = err
                  /\ adv' = o.results
                  /\ pc' = "advanced"
    /\ UNCHANGED <<file, raw_df, df, kpis, shown, fkpis, snapshot, authVars, dashVars>>

ShowForecast ==
    /\ pc = "advanced"
    /\ fkpis' = forecast_kpis(adv, df)
    /\ pc' = "done"
    /\ UNCHANGED <<file, raw_df, df, kpis, err, shown, calls, adv, snapshot, authVars, dashVars>>

InitAdvanced ==
    /\ pc = "prepare"
    /\ raw_df \in DailyTables(MaxDays) \cup TablesOf(CustomerRows, MaxCustomerRows)
    /\ file = [ext |-> ".csv", cols |-> raw_df.cols, rows |-> raw_df.rows]
    /\ df = NoTable
    /\ kpis = NoKpis
    /\ err = NoErr
    /\ shown = NoErr
    /\ calls = << "load_data" >>
    /\ adv = NoAdv
    /\ fkpis = NoForecastKpis
    /\ snapshot = NoTable
    /\ AuthIdle
    /\ DashIdle

NextAdvanced == PrepareData \/ ComputeAdvanced \/ ShowForecast

SpecAdvanced == InitAdvanced /\ [][NextAdvanced]_vars

----------------------------------------------------------------------------
(* The login database and the reruns of main() up to the dashboard: the    *)
(* database functions called in any order, and the sessions' reruns with    *)
(* one button pressed at most                                               *)

\* what is recorded of a call
Call(op, s, username, password, result, was_set, reached) ==
    [op |-> op, session |-> s, username |-> username, password |-> password,
     result |-> result, was_set |-> was_set, reached |-> reached]

\* main() that goes on whatever login_or_register returned
stops_never(ss) == FALSE

\* if not login_or_register(): st.warning(...); st.stop()  (lines 302-304)
stops_at_login(ss) == ~ss.authenticated

\* main() after login_or_register() (lines 302-348) in a session whose state
\* is ss, with the top-row button pressed, if any: the session state it
\* leaves and the parts of the page it reaches
main_after_login(ss, button) ==
    IF stops_at_login(ss)
    THEN [session |-> ss, reached |-> {"login"}]
    ELSE IF ss.authenticated /\ button = "Log Out"
    THEN [session |-> NoSession, reached |-> {"login"}]
    ELSE LET toggled == ss.authenticated /\ ss.is_admin /\ button = "Admin Panel"
             show    == IF ~ss.authenticated THEN FALSE
                        ELSE IF toggled THEN ~ss.show_admin_panel
                        ELSE ss.show_admin_panel
             after   == IF toggled THEN [ss EXCEPT !.show_admin_panel = show] ELSE ss
         IN  IF show
             THEN [session |-> after, reached |-> {"login", "admin_panel"}]
             ELSE [session |-> after, reached |-> {"login", "dashboard"}]

CreateAdminUser(u) ==
    /\ \E p \in Passwords :
          /\ users' = create_admin_user(users, u, p)
          /\ recent' = [recent EXCEPT ![u] = p]
    /\ event' = Call("create_admin_user", "", u, "", "", FALSE, {})
    /\ UNCHANGED <<sess, pipeVars, dashVars>>

ApproveUser(u) ==
    /\ users' = approve_user(users, u)
    /\ event' = Call("approve_user", "", u, "", "", FALSE, {})
    /\ UNCHANGED <<sess, recent, pipeVars, dashVars>>

RejectUser(u) ==
    /\ users' = reject_user(users, u)
    /\ event' = Call("reject_user", "", u, "", "", FALSE, {})
    /\ UNCHANGED <<sess, recent, pipeVars, dashVars>>

DeleteUser(u) ==
    /\ users' = delete_user(users, u)
    /\ recent' = [recent EXCEPT ![u] = ""]
    /\ event' = Call("delete_user", "", u, "", "", FALSE, {})
    /\ UNCHANGED <<sess, pipeVars, dashVars>>

ResetUserPassword(u) ==
    /\ \E p \in Passwords :
          /\ users' = reset_user_password(users, u, p)
          /\ recent' = IF users[u].exists THEN [recent EXCEPT ![u] = p] ELSE recent
    /\ event' = Call("reset_user_password", "", u, "", "", FALSE, {})
    /\ UNCHANGED <<sess, pipeVars, dashVars>>

ResetAdminPassword ==
    /\ \E p \in Passwords :
          /\ users' = reset_admin_password(users, p)
          /\ recent' = [u \in Usernames |-> IF is_admin_user(users, u) THEN p ELSE recent[u]]
    /\ event' = Call("reset_admin_password", "", "", "", "", FALSE, {})
    /\ UNCHANGED <<sess, pipeVars, dashVars>>

\* the sidebar, which holds the login form, can be used: once the session is
\* authenticated every rerun hides it (display: none, lines 306-309, 326-336,
\* 344-346) and the checkbox that would show it again is inside it
sidebar_shown(ss) == ~ss.authenticated

\* a rerun with action = Register, u in the username field and Request
\* Registration pressed (lines 175-185)
RequestRegistration(s, u) ==
    /\ sidebar_shown(sess[s])
    /\ LET r == register_user(users, u)
           m == main_after_login(sess[s], "")
       IN  /\ users' = r.db
           /\ recent' = IF r.success THEN [recent EXCEPT ![u] = ""] ELSE recent
           /\ sess' = [sess EXCEPT ![s] = m.session]
           /\ event' = Call("register_user", s, u, "", IF r.success THEN "True" ELSE "False",
                            FALSE, m.reached)
    /\ UNCHANGED <<pipeVars, dashVars>>

\* a rerun with action = Login, u in the username field and Login pressed
\* (lines 187-200, 205-219)
Login(s, u) ==
    /\ sidebar_shown(sess[s])
    /\ \E p \in Passwords :
          LET login_result == check_login_db(users, u, p)
              ss == CASE login_result = "set_password" ->
                            [sess[s] EXCEPT !.set_password_user = u]
                      [] login_result = "True" ->
                            [sess[s] EXCEPT !.authenticated = TRUE, !.current_user = u,
                                            !.is_admin = is_admin_user(users, u)]
                      [] OTHER -> sess[s]
              m == main_after_login(ss, "")
          IN  /\ sess' = [sess EXCEPT ![s] = m.session]
              /\ event' = Call("check_login_db", s, u, p, login_result, FALSE, m.reached)
    /\ UNCHANGED <<users, recent, pipeVars, dashVars>>

\* a rerun with action = Login, the username that was asked to set a password
\* still in the field, and Set Password pressed with two equal passwords
\* (lines 201-217); with another username in the field the form is not shown
SetPassword(s) ==
    /\ sidebar_shown(sess[s])
    /\ sess[s].set_password_user # ""
    /\ \E new_pw \in Passwords :
          LET u == sess[s].set_password_user
              m == main_after_login([sess[s] EXCEPT !.set_password_user = ""], "")
          IN  /\ users' = set_user_password(users, u, new_pw)
              /\ recent' = IF users[u].exists THEN [recent EXCEPT ![u] = new_pw] ELSE recent
              /\ sess' = [sess EXCEPT ![s] = m.session]
              /\ event' = Call("set_user_password", s, u, "", "",
                               users[u].password_hash.set, m.reached)
    /\ UNCHANGED <<pipeVars, dashVars>>

\* a rerun with Log Out pressed (lines 313-318)
LogOut(s) ==
    /\ sess[s].authenticated
    /\ LET m == main_after_login(sess[s], "Log Out")
       IN  /\ sess' = [sess EXCEPT ![s] = m.session]
           /\ event' = Call("Log Out", s, "", "", "", FALSE, m.reached)
    /\ UNCHANGED <<users, recent, pipeVars, dashVars>>

\* a rerun with Admin Panel pressed (lines 319-324, 339-341)
AdminPanelButton(s) ==
    /\ sess[s].authenticated /\ sess[s].is_admin
    /\ LET m == main_after_login(sess[s], "Admin Panel")
       IN  /\ sess' = [sess EXCEPT ![s] = m.session]
           /\ event' = Call("Admin Panel", s, "", "", "", FALSE, m.reached)
    /\ UNCHANGED <<users, recent, pipeVars, dashVars>>

\* a rerun with no button of the login form or the top row pressed
View(s) ==
    /\ LET m == main_after_login(sess[s], "")
       IN  /\ sess' = [sess EXCEPT ![s] = m.session]
           /\ event' = Call("rerun", s, "", "", "", FALSE, m.reached)
    /\ UNCHANGED <<users, recent, pipeVars, dashVars>>

\* the database functions on the usernames U and the reruns of the sessions S
NextOf(S, U) ==
    \/ \E u \in U : CreateAdminUser(u)
    \/ \E u \in U : ApproveUser(u)
    \/ \E u \in U : RejectUser(u)
    \/ \E u \in U : DeleteUser(u)
    \/ \E u \in U : ResetUserPassword(u)
    \/ ResetAdminPassword
    \/ \E s \in S, u \in U : RequestRegistration(s, u)
    \/ \E s \in S, u \in U : Login(s, u)
    \/ \E s \in S : SetPassword(s)
    \/ \E s \in S : LogOut(s)
    \/ \E s \in S : AdminPanelButton(s)
    \/ \E s \in S : View(s)

\* one session and every username
NextAuth == NextOf({"s1"}, Usernames)
SpecAuth == Init /\ [][NextAuth]_vars

\* every session and one username
NextFlow == NextOf(Sessions, {"amy"})
SpecFlow == Init /\ [][NextFlow]_vars

----------------------------------------------------------------------------
(* app.py main() lines 348-517 in an authenticated session: the uploaded    *)
(* files, the filters and the KPI and forecast results kept in              *)
(* st.session_state from one rerun to the next.  A rerun follows one        *)
(* interaction; the other widgets hold the values they had.                 *)

UploadNames == {"a.csv", "b.csv"}

\* the rows of the files: both cover 23 and 24 December 2024 with the
\* same customers and the same O/T values
UploadRows(name) ==
    IF name = "a.csv"
    THEN << FullRow(<< "A", "1" >>, << "X" >>, DateText(0), DateText(1), << "3" >>, << "9" >>, << "8", "0" >>, << "7", "9" >>),
            FullRow(<< "A", "2" >>, << "Y" >>, DateText(1), DateText(1), << "3" >>, << "9" >>, << "8", "0" >>, << "7", "9" >>) >>
    ELSE << FullRow(<< "A", "1" >>, << "X" >>, DateText(0), DateText(0), << "3" >>, << "9" >>, << "-", "3", "0" >>, << "7", "9" >>),
            FullRow(<< "A", "2" >>, << "Y" >>, DateText(0), DateText(1), << "3" >>, << "9" >>, << "8", "0" >>, << "7", "9" >>),
            FullRow(<< "A", "3" >>, << "Y" >>, DateText(1), <<>>, << "3" >>, << "9" >>, << "8", "0" >>, << "7", "9" >>) >>

\* the O/T cells of the rows of the files
UploadOT(name) ==
    IF name = "a.csv" THEN << Txt(<< "O" >>), Txt(<< "T" >>) >>
    ELSE << Txt(<< "T" >>), Txt(<< "O" >>), Txt(<< "O" >>) >>

\* a table with one more column
WithColumn(t, col, cells) ==
    [cols |-> t.cols \cup {col},
     rows |-> [i \in 1..Len(t.rows) |->
                 [x \in DOMAIN t.rows[i] \cup {col} |->
                     IF x = col THEN cells[i] ELSE t.rows[i][x]]]]

\* df = prepare_data(load_data(tmp_path)) of the selected file (lines 366-385);
\* O/T is a column prepare_data leaves as it was read
selected_df(name) ==
    WithColumn(prepare_data(LoadedTable(UploadRows(name))), "O/T", UploadOT(name))

\* df['Entered'].min() and .max() as the date_input takes them (lines 396-404)
min_date(t) == CHOOSE d \in {r.Entered.v : r \in Range(t.rows)} :
                  \A r \in Range(t.rows) : d <= r.Entered.v
max_date(t) == CHOOSE d \in {r.Entered.v : r \in Range(t.rows)} :
                  \A r \in Range(t.rows) : r.Entered.v <= d

\* the widgets' defaults: the whole range, "All", "All", 'Monthly', 30
DefaultWidgets(t) ==
    [start_date |-> min_date(t), end_date |-> max_date(t), selected_name |-> "All",
     selected_ot |-> "All", freq |-> "Monthly", forecast_days |-> 30]

\* the date ranges picked in the date_input: the whole range or its first day
RangeChoices(t) ==
    { [start_date |-> min_date(t), end_date |-> max_date(t)],
      [start_date |-> min_date(t), end_date |-> min_date(t)] }

\* the options picked in the two selectboxes
NameChoices == {"All", "X"}
OTChoices   == {"All", "O"}

\* filtered_df (lines 413-418)
apply_filters(t, w) ==
    [t EXCEPT !.rows =
        SelectSeq(t.rows, LAMBDA r :
            /\ ~isnull(r.Entered)
            /\ 86400 * w.start_date <= Stamp(r.Entered)
            /\ Stamp(r.Entered) <= 86400 * w.end_date
            /\ w.selected_name # "All" => r.Name = Txt(<< w.selected_name >>)
            /\ w.selected_ot # "All" => r["O/T"] = Txt(<< w.selected_ot >>))]

\* chart_filters (lines 421-428)
chart_filters(w) == w

\* forecast_key (line 490)
forecast_key(w) == << w.start_date, w.end_date, w.selected_name, w.forecast_days >>

\* the KPI set is computed in this rerun (lines 431-435)
kpis_stale(c, filters) == ~c.has_kpis \/ c.last_kpi_filters # filters

\* one rerun of lines 348-517 with file name selected, the widgets holding
\* w, Run Forecast pressed or not, and o what compute_advanced_metrics would
\* return on the filtered table: the session state and what is displayed
dashboard(c, name, w, run_forecast, o) ==
    LET filtered_df == apply_filters(selected_df(name), w)
        compute     == kpis_stale(c, chart_filters(w))
        shown_kpis  == IF compute THEN compute_kpis(filtered_df) ELSE c.last_kpis
        key         == forecast_key(w)
        stored      == c.has_forecast /\ c.last_forecast_key = key
        forecast    == run_forecast \/ stored
        fit         == run_forecast \/ ~stored
        shown_adv   == IF ~forecast THEN NoAdv
                       ELSE IF fit THEN o.results ELSE c.last_forecast_adv
    IN  [cache |-> [uploaded_files    |-> c.uploaded_files \cup {name},
                    last_file_name    |-> name,
                    widgets           |-> w,
                    has_kpis          |-> TRUE,
                    last_kpi_filters  |-> chart_filters(w),
                    last_kpis         |-> shown_kpis,
                    has_forecast      |-> c.has_forecast \/ forecast,
                    last_forecast_key |-> IF forecast /\ fit THEN key ELSE c.last_forecast_key,
                    last_forecast_adv |-> IF forecast /\ fit THEN o.results
                                          ELSE c.last_forecast_adv],
         ui    |-> [ran |-> TRUE, filtered_df |-> filtered_df, forecast_days |-> w.forecast_days,
                    kpis |-> shown_kpis, reused_kpis |-> ~compute,
                    forecast_shown |-> forecast, adv |-> shown_adv,
                    reused_forecast |-> forecast /\ ~fit]]

\* the rerun that follows an interaction
DashboardRerun(name, w, run_forecast) ==
    /\ sess["s1"].authenticated
    /\ \E o \in AdvancedOutcomes(apply_filters(selected_df(name), w), w.forecast_days) :
          /\ ~o.raised
          /\ LET d == dashboard(cache, name, w, run_forecast, o)
             IN  cache' = d.cache /\ ui' = d.ui
    /\ UNCHANGED <<pipeVars, authVars>>

\* a file is put into the file_uploader (lines 354-364): it is stored under
\* its name and becomes the selected file; the filters of a first file are
\* at their defaults, and stay as they are when the new file offers the
\* same dates and options
UploadFile ==
    \E name \in UploadNames \ cache.uploaded_files :
        DashboardRerun(name,
                       IF cache.uploaded_files = {} THEN DefaultWidgets(selected_df(name))
                       ELSE cache.widgets,
                       FALSE)

\* another uploaded file is chosen in the selectbox (lines 358-364)
ChooseFile ==
    /\ cache.uploaded_files # {}
    /\ \E name \in cache.uploaded_files \ {cache.last_file_name} :
          DashboardRerun(name, cache.widgets, FALSE)

\* the date range is changed (lines 396-404)
ChangeDateRange ==
    /\ cache.uploaded_files # {}
    /\ \E r \in RangeChoices(selected_df(cache.last_file_name)) :
          /\ <<r.start_date, r.end_date>> # <<cache.widgets.start_date, cache.widgets.end_date>>
          /\ DashboardRerun(cache.last_file_name,
                            [cache.widgets EXCEPT !.start_date = r.start_date,
                                                  !.end_date = r.end_date],
                            FALSE)

\* another customer is chosen (lines 405-407)
ChangeName ==
    /\ cache.uploaded_files # {}
    /\ \E v \in NameChoices \ {cache.widgets.selected_name} :
          DashboardRerun(cache.last_file_name, [cache.widgets EXCEPT !.selected_name = v], FALSE)

\* another O/T is chosen (lines 408-410)
ChangeOT ==
    /\ cache.uploaded_files # {}
    /\ \E v \in OTChoices \ {cache.widgets.selected_ot} :
          DashboardRerun(cache.last_file_name, [cache.widgets EXCEPT !.selected_ot = v], FALSE)

\* the number of days to forecast is changed (line 487)
ChangeForecastDays ==
    /\ cache.uploaded_files # {}
    /\ \E v \in ForecastDays \ {cache.widgets.forecast_days} :
          DashboardRerun(cache.last_file_name, [cache.widgets EXCEPT !.forecast_days = v], FALSE)

\* Run Forecast is pressed (lines 488-496)
RunForecast ==
    /\ cache.uploaded_files # {}
    /\ DashboardRerun(cache.last_file_name, cache.widgets, TRUE)

\* a session that has logged in
InitSession ==
    /\ pc = "idle"
    /\ file = NoFile
    /\ raw_df = NoTable
    /\ df = NoTable
    /\ kpis = NoKpis
    /\ err = NoErr
    /\ shown = NoErr
    /\ calls = <<>>
    /\ adv = NoAdv
    /\ fkpis = NoForecastKpis
    /\ snapshot = NoTable
    /\ users = [NoUsers EXCEPT !["amy"] =
                  [exists |-> TRUE, password_hash |-> hashpw("p1"), status |-> "approved", is_admin |-> 0]]
    /\ sess = [s \in Sessions |->
                  IF s = "s1"
                  THEN [NoSession EXCEPT !.authenticated = TRUE, !.current_user = "amy"]
                  ELSE NoSession]
    /\ event = Call("check_login_db", "s1", "amy", "p1", "True", FALSE, {"login", "dashboard"})
    /\ recent = [NoRecent EXCEPT !["amy"] = "p1"]
    /\ DashIdle

NextSession ==
    \/ UploadFile
    \/ ChooseFile
    \/ ChangeDateRange
    \/ ChangeName
    \/ ChangeOT
    \/ ChangeForecastDays
    \/ RunForecast

SpecSession == InitSession /\ [][NextSession]_vars

----------------------------------------------------------------------------
(* Claims about load_data and the order of the pipeline (Spec)             *)

\* load_data has just returned or raised on the selected file
LoadJustRan == calls = << "load_data" >> /\ pc \in {"prepare", "except"}

LacksRequired(f) == RequiredSet \ f.cols # {}

\* C1: a readable table that lacks required columns makes load_data fail with
\* an error naming exactly the missing columns in the order of the
\* required-column list, whatever other columns it has; a table that has
\* them all passes.
ClaimC1 ==
    (LoadJustRan /\ file.ext \in SupportedExt) =>
        IF LacksRequired(file)
        THEN pc = "except" /\ err.names = MissingColumns(file.cols)
        ELSE pc = "prepare" /\ raw_df.rows = file.rows

\* C2: prepare_data runs only on a table load_data returned; when load_data
\* fails, the error is surfaced and neither prepare_data, compute_kpis nor
\* compute_advanced_metrics runs for that file.
TheoremC2 ==
    /\ "prepare_data" \in Range(calls) =>
            /\ calls[1] = "load_data" /\ calls[2] = "prepare_data"
            /\ file.ext \in SupportedExt
            /\ ~LacksRequired(file)
            /\ RequiredSet \subseteq raw_df.cols
    /\ (file # NoFile /\ (file.ext \notin SupportedExt \/ LacksRequired(file))) =>
            /\ Range(calls) \subseteq {"load_data"}
            /\ df = NoTable /\ kpis = NoKpis
            /\ pc = "done" => (shown = err /\ shown.type = "ValueError")

WitnessC2 ==
    /\ pc = "done"
    /\ LacksRequired(file)
    /\ calls = << "load_data" >>
    /\ shown.type = "ValueError"

----------------------------------------------------------------------------
(* Claims about prepare_data and compute_kpis (SpecAmounts)                *)

Prepared == pc \in {"kpis", "done"}
Computed == pc = "done" /\ kpis.computed

Rows == 1..Len(df.rows)

RECURSIVE SumSet(_, _)
SumSet(S, f) ==
    IF S = {} THEN 0
    ELSE LET x == CHOOSE y \in S : TRUE IN f[x] + SumSet(S \ {x}, f)

\* m is n / d rounded to the nearest integer, an exact half to the even one
IsNearest(m, n, d) ==
    /\ 2 * Abs(m * d - n) <= Abs(d)
    /\ 2 * Abs(m * d - n) = Abs(d) => m % 2 = 0

\* the fraction f is the quotient n / d
IsQuotient(f, n, d) == f.den # 0 /\ f.num * d = n * f.den

\* C22: each of the six KPIs compute_kpis returns is a defined number, also
\* for a non-empty table in which no row has a defined Margin_% and for
\* tables in which every Nett or Qty is null; none is NaN.
ClaimC22 ==
    Computed =>
        /\ kpis.TotalNettSales \in Int /\ kpis.TotalOrders \in Nat /\ kpis.TotalUnitsSold \in Int
        /\ kpis.AverageOrderValue.den # 0
        /\ kpis.AverageMargin.den # 0
        /\ kpis.AverageTurnaround.den # 0

\* C3: after prepare_data a row with Nett = 0 has a null Margin_%, a row with
\* Nett # 0 has Margin_% = round((Nett - Cost) / Nett * 100, 1), and
\* Gross_Margin = Nett - Cost on every row (null where Nett or Cost is null).
TheoremC3 ==
    Prepared =>
        \A i \in Rows :
            LET r == df.rows[i]
                known == ~isnull(r.Nett) /\ ~isnull(r.Cost)
            IN  /\ known => r.Gross_Margin = Num(r.Nett.v - r.Cost.v)
                /\ ~known => isnull(r.Gross_Margin)
                /\ (~isnull(r.Nett) /\ r.Nett.v = 0) => isnull(r.Margin_pct)
                /\ (known /\ r.Nett.v # 0) =>
                        /\ ~isnull(r.Margin_pct)
                        /\ IsNearest(r.Margin_pct.v, 1000 * (r.Nett.v - r.Cost.v), r.Nett.v)
                /\ ~known => isnull(r.Margin_pct)

WitnessC3 ==
    /\ pc = "kpis"
    /\ \E i, j \in Rows :
          /\ ~isnull(df.rows[i].Nett) /\ df.rows[i].Nett.v = 0
          /\ ~isnull(df.rows[i].Cost) /\ isnull(df.rows[i].Margin_pct)
          /\ ~isnull(df.rows[j].Nett) /\ df.rows[j].Nett.v < 0
          /\ ~isnull(df.rows[j].Margin_pct)

\* the distinct non-empty Order ids of the file's rows
OrderIds == {file.rows[i].Order : i \in 1..Len(file.rows)} \ {NaN}

\* C4: Total Orders is the number of distinct non-null Order values, not the
\* number of rows.
TheoremC4 == Computed => kpis.TotalOrders = Cardinality(OrderIds)

WitnessC4 ==
    /\ Computed
    /\ Len(df.rows) = 2
    /\ df.rows[1].Order = df.rows[2].Order
    /\ ~isnull(df.rows[1].Order)
    /\ kpis.TotalOrders = 1

ValueOr0(c) == IF isnull(c) THEN 0 ELSE c.v

\* C5: Total Nett Sales and Total Units Sold are the sums of Nett and of Qty
\* over every row; no row is left out for sharing its Order id or for a zero
\* or negative Nett.
TheoremC5 ==
    Computed =>
        /\ kpis.TotalNettSales = SumSet(Rows, [i \in Rows |-> ValueOr0(df.rows[i].Nett)])
        /\ kpis.TotalUnitsSold = SumSet(Rows, [i \in Rows |-> ValueOr0(df.rows[i].Qty)])

WitnessC5 ==
    /\ Computed
    /\ Len(df.rows) = 2
    /\ df.rows[1].Order = df.rows[2].Order
    /\ ~isnull(df.rows[1].Nett) /\ df.rows[1].Nett.v = 80
    /\ ~isnull(df.rows[2].Nett) /\ df.rows[2].Nett.v = -30
    /\ kpis.TotalNettSales = 50
    /\ kpis.TotalUnitsSold = 6

\* C6: Average Order Value is Total Nett Sales / Total Orders when Total
\* Orders > 0 and exactly 0 when Total Orders is 0; nothing is divided by zero.
TheoremC6 ==
    Computed =>
        IF kpis.TotalOrders > 0
        THEN IsQuotient(kpis.AverageOrderValue, kpis.TotalNettSales, kpis.TotalOrders)
        ELSE kpis.AverageOrderValue = Zero

WitnessC6 ==
    /\ Computed
    /\ kpis.TotalOrders = 0
    /\ kpis.TotalNettSales # 0
    /\ kpis.AverageOrderValue = Zero

\* C7: on a table with no rows compute_kpis returns Total Orders = 0, Average
\* Order Value = 0, Average Margin % = 0 and Average Turnaround = 0, and does
\* not raise.
TheoremC7 ==
    (pc = "done" /\ Len(df.rows) = 0) =>
        /\ kpis.computed /\ ~kpis.raised
        /\ kpis.TotalOrders = 0
        /\ kpis.AverageOrderValue = Zero
        /\ kpis.AverageMargin = Zero
        /\ kpis.AverageTurnaround = Zero

WitnessC7 == pc = "done" /\ Len(df.rows) = 0 /\ kpis.computed

\* the rows whose Margin_% is defined
WithMargin == {i \in Rows : ~isnull(df.rows[i].Margin_pct)}

\* C10: Average Margin % is the mean of Margin_% over exactly the rows where
\* it is defined (undefined, NaN, when the table has rows but none of them
\* has one), and 0 when the table is empty.
TheoremC10 ==
    Computed =>
        IF Len(df.rows) = 0 THEN kpis.AverageMargin = Zero
        ELSE IF WithMargin = {} THEN kpis.AverageMargin.den = 0
        ELSE IsQuotient(kpis.AverageMargin,
                        SumSet(WithMargin, [i \in WithMargin |-> df.rows[i].Margin_pct.v]),
                        Cardinality(WithMargin))

WitnessC10 ==
    /\ Computed
    /\ Len(df.rows) = 2
    /\ Cardinality(WithMargin) = 1
    /\ \E i \in WithMargin : kpis.AverageMargin = Frac(df.rows[i].Margin_pct.v, 1)
    /\ kpis.AverageMargin.num # 0

----------------------------------------------------------------------------
(* Claims about the turnaround (SpecDates)                                 *)

\* the rows with both dates
Dated == {i \in Rows : ~isnull(df.rows[i].Entered) /\ ~isnull(df.rows[i].Sent)}

\* the business days of [Entered, Sent]: Monday to Friday, not a holiday
BusinessDays(r) == {d \in r.Entered.v .. r.Sent.v : IsWeekday(d) /\ d \notin GBHolidays}

\* business days less one; 0 when the range holds none
TurnaroundOf(r) ==
    IF BusinessDays(r) = {} THEN 0 ELSE Cardinality(BusinessDays(r)) - 1

\* C8: the turnaround of a row with both dates is the number of business days
\* (Monday to Friday, not in the holiday calendar) of [Entered, Sent] less
\* one; rows missing a date are left out; the KPI is the mean of the rows'
\* values, and 0 when no row qualifies.
ClaimC8 ==
    Computed =>
        IF Dated = {} THEN kpis.AverageTurnaround = Zero
        ELSE IsQuotient(kpis.AverageTurnaround,
                        SumSet(Dated, [i \in Dated |-> TurnaroundOf(df.rows[i])]),
                        Cardinality(Dated))

\* C9: a row whose range [Entered, Sent] holds no business day has turnaround
\* 0, so the turnaround of a row and the Average Turnaround are never
\* negative.
ClaimC9 ==
    Computed =>
        /\ \A i \in Dated :
              /\ BusinessDays(df.rows[i]) = {} => business_days(df.rows[i]).n = 0
              /\ business_days(df.rows[i]).n >= 0
        /\ kpis.AverageTurnaround.num >= 0

\* the rows with both dates whose Sent is earlier than their Entered
Reversed == {i \in Dated : Stamp(df.rows[i].Sent) < Stamp(df.rows[i].Entered)}

\* the Monday-to-Friday dates of [Entered, Sent]
Weekdays(r) == {d \in r.Entered.v .. r.Sent.v : IsWeekday(d)}

\* the weekdays of the range less one; 0 when the range holds none
WeekdaysLessOne(r) == IF Weekdays(r) = {} THEN 0 ELSE Cardinality(Weekdays(r)) - 1

\* C23 as stated: a row whose Sent is earlier than its Entered contributes
\* no value to Average Turnaround; the mean is taken over the other rows
\* that have both dates, and is 0 when there is none.
ClaimC23 ==
    Computed =>
        IF Dated \ Reversed = {} THEN kpis.AverageTurnaround = Zero
        ELSE IsQuotient(kpis.AverageTurnaround,
                        SumSet(Dated \ Reversed,
                               [i \in Dated \ Reversed |-> WeekdaysLessOne(df.rows[i])]),
                        Cardinality(Dated \ Reversed))

\* C23 amended: a row whose Sent is earlier than its Entered has turnaround
\* 0 and is counted in the mean like every other row with both dates; the
\* Average Turnaround is the sum of the rows' values (weekdays of the range
\* less one) over the number of rows with both dates, reversed ones included.
TheoremC23 ==
    Computed =>
        /\ \A i \in Reversed : business_days(df.rows[i]) = [raised |-> FALSE, none |-> FALSE, n |-> 0]
        /\ Dated # {} =>
              IsQuotient(kpis.AverageTurnaround,
                         SumSet(Dated, [i \in Dated |-> WeekdaysLessOne(df.rows[i])]),
                         Cardinality(Dated))

\* a row with reversed dates beside a row that took a business day
WitnessC23 ==
    /\ Computed
    /\ Reversed # {}
    /\ \E j \in Dated : WeekdaysLessOne(df.rows[j]) > 0
    /\ kpis.AverageTurnaround = Frac(1, 2)

----------------------------------------------------------------------------
(* Claims about compute_advanced_metrics and the forecasted KPIs            *)
(* (SpecAdvanced)                                                           *)

\* compute_advanced_metrics has returned or raised
AdvancedRan == pc \in {"advanced", "raised", "done"} /\ "compute_advanced_metrics" \in Range(calls)
AdvancedReturned == pc \in {"advanced", "done"} /\ adv.returned

FitAttempted == "Prophet.fit" \in Range(calls)

\* the rows with an Entered date, and the calendar days they fall on
EnteredRows == {i \in Rows : ~isnull(df.rows[i].Entered)}
ObservedDays == {df.rows[i].Entered.v : i \in EnteredRows}

\* the four forecast series of the result are empty
EmptyForecasts ==
    /\ adv.forecast = <<>>
    /\ adv.forecast_lower = <<>>
    /\ adv.forecast_upper = <<>>
    /\ adv.forecast_orders = <<>>

\* C11: a model fit is attempted only when more than 10 days are observed;
\* with 10 observed days or fewer no fit is attempted, the call returns
\* without raising, the four forecast series are empty, and 7d_ma,
\* inactive_customers and low_days are returned.
ClaimC11 ==
    AdvancedRan =>
        /\ FitAttempted => Cardinality(ObservedDays) > MinObserved
        /\ Cardinality(ObservedDays) <= MinObserved =>
              /\ ~FitAttempted
              /\ AdvancedReturned
              /\ EmptyForecasts
              /\ Len(adv.ma7) = Cardinality(GroupKeys(df))

\* C12: a fit or prediction that fails does not propagate out of
\* compute_advanced_metrics: the call returns its result, with the four
\* forecast series empty when the fit failed, and no exception is in flight.
ClaimC12 ==
    AdvancedRan =>
        /\ AdvancedReturned
        /\ err = NoErr

\* the time between the greatest Entered of the table and the Entered of a row
Age(r) == MaxEntered(df).ds - Stamp(r.Entered)

\* the customer has no row dated within the 30 days up to the greatest Entered
Inactive(name) ==
    \A i \in Rows :
        df.rows[i].Name = name =>
            isnull(df.rows[i].Entered) \/ Age(df.rows[i]) >= 86400 * InactiveDays

\* C13: inactive_customers lists exactly the Name values of the table that
\* have no row dated within the 30 days up to the greatest Entered date, each
\* once.
TheoremC13 ==
    AdvancedReturned =>
        /\ Range(adv.inactive_customers) = {name \in {df.rows[i].Name : i \in Rows} : Inactive(name)}
        /\ Len(adv.inactive_customers) = Cardinality(Range(adv.inactive_customers))

\* X last ordered 40 days before the greatest date and is listed; Y ordered
\* 5 days before it and is not
WitnessC13 ==
    /\ AdvancedReturned
    /\ MaxEntered(df).ds = Stamp(Date(39))
    /\ \E i \in Rows : df.rows[i].Name = Txt(<< "X" >>) /\ df.rows[i].Entered = Date(-1)
    /\ \E i \in Rows : df.rows[i].Name = Txt(<< "Y" >>) /\ df.rows[i].Entered = Date(34)
    /\ Txt(<< "X" >>) \in Range(adv.inactive_customers)
    /\ Txt(<< "Y" >>) \notin Range(adv.inactive_customers)

\* the Nett summed over the rows of one calendar day
DayNett(d) == SumCol(SelectSeq(df.rows, LAMBDA r : ~isnull(r.Entered) /\ r.Entered.v = d), "Nett")

\* the day's Nett is below the mean of the days' Nett by more than twice
\* their sample standard deviation (compared without the square root)
IsLowDay(d) ==
    LET n == Cardinality(ObservedDays)
        S == SumSet(ObservedDays, [x \in ObservedDays |-> DayNett(x)])
        Q == SumSet(ObservedDays, [x \in ObservedDays |-> DayNett(x) * DayNett(x)])
        g == S - n * DayNett(d)
    IN  /\ n >= 2
        /\ g > 0
        /\ (n - 1) * g * g > 4 * n * (n * Q - S * S)

\* C19: low_days is exactly the set of Entered dates whose summed daily Nett
\* is strictly less than the mean of the daily Nett less twice its standard
\* deviation; it is empty when no date qualifies.
ClaimC19 ==
    AdvancedReturned =>
        {ds \div 86400 : ds \in Range(adv.low_days)} = {d \in ObservedDays : IsLowDay(d)}

\* C20: the forecast series are indexed by date, and the forecasted KPIs sum
\* the predictions of exactly the forecast dates strictly after the last
\* observed Entered date: no observed date is among them.
TheoremC20 ==
    (pc = "done" /\ fkpis.shown) =>
        /\ \A ds \in Range(fkpis.forecast_future) \cup Range(fkpis.forecast_lower)
                     \cup Range(fkpis.forecast_upper) \cup Range(fkpis.forecast_orders_future) :
              /\ \A i \in EnteredRows : ds > Stamp(df.rows[i].Entered)
              /\ ds \div 86400 \notin ObservedDays
        /\ Range(fkpis.forecast_future) = {ds \in Range(adv.forecast) : ds > MaxEntered(df).ds}
        /\ Range(fkpis.forecast_orders_future) = {ds \in Range(adv.forecast_orders) : ds > MaxEntered(df).ds}
        /\ Range(fkpis.forecast_lower) = Range(fkpis.forecast_future)
        /\ Range(fkpis.forecast_upper) = Range(fkpis.forecast_future)

\* a forecast over observed and future dates was trimmed and shown
WitnessC20 ==
    /\ pc = "done"
    /\ fkpis.shown
    /\ Len(fkpis.forecast_future) > 0
    /\ Len(adv.forecast) > Len(fkpis.forecast_future)

----------------------------------------------------------------------------
(* Claims about prepare_data on cells that may not parse (SpecPrepare)      *)

\* prepare_data has returned once
PreparedOnce == pc = "kpis" /\ calls = << "load_data", "prepare_data" >>

\* the table as load_data returned it
Loaded == [cols |-> file.cols, rows |-> file.rows]

\* C14: prepare_data returns as many rows as it was given, in their order,
\* with every input column kept and only Gross_Margin and Margin_% added; a
\* cell that fails to parse drops no row.
TheoremC14 ==
    PreparedOnce =>
        /\ Len(df.rows) = Len(Loaded.rows)
        /\ \A i \in Rows : df.rows[i].Order = Loaded.rows[i].Order /\ df.rows[i].Name = Loaded.rows[i].Name
        /\ Loaded.cols \subseteq df.cols
        /\ df.cols \ Loaded.cols = {"Gross_Margin", "Margin_%"}

\* a table of two rows, one with a Nett that is not a number, was prepared
WitnessC14 ==
    /\ PreparedOnce
    /\ Len(df.rows) = 2
    /\ \E i \in Rows : Loaded.rows[i].Nett = Txt(Junk) /\ isnull(df.rows[i].Nett)
    /\ \E i \in Rows : Loaded.rows[i].Entered = Txt(Junk) /\ isnull(df.rows[i].Entered)

\* the decimal notation of an integer
RECURSIVE Decimal(_)
Decimal(n) ==
    IF n < 0 THEN << "-" >> \o Decimal(-n)
    ELSE IF n < 10 THEN << Chr[n + 1] >>
    ELSE Decimal(n \div 10) \o << Chr[(n % 10) + 1] >>

\* the numbers a generated cell may hold
Amounts == -30..100

\* the text reads as a number
IsNumber(c) == c.kind = "str" /\ \E n \in Amounts : Decimal(n) = c.s
NumberOf(c) == CHOOSE n \in Amounts : Decimal(n) = c.s

\* C15: after prepare_data a cell of Qty, List, Nett or Cost that reads as a
\* number holds that number, and any other is null (not 0) with its row kept;
\* nothing is raised.
TheoremC15 ==
    PreparedOnce =>
        /\ err = NoErr
        /\ Len(df.rows) = Len(Loaded.rows)
        /\ \A i \in Rows : \A k \in 1..Len(NUMERIC_COLS) :
              LET raw == Loaded.rows[i][NUMERIC_COLS[k]]
                  out == df.rows[i][NUMERIC_COLS[k]]
              IN  IF IsNumber(raw) THEN out = Num(NumberOf(raw)) ELSE out = NaN

\* a List that is not a number became null beside a Cost that was read
WitnessC15 ==
    /\ PreparedOnce
    /\ \E i \in Rows :
          /\ Loaded.rows[i].List = Txt(Junk) /\ df.rows[i].List = NaN
          /\ Loaded.rows[i].Cost = Txt(<< "-", "3", "0" >>) /\ df.rows[i].Cost = Num(-30)

\* the days of the model's calendar: 1 December 2024 to 31 January 2025
CalendarDays == -22..39

\* the text is a date written day/month/year
IsPlainDate(c) == c.kind = "str" /\ \E d \in CalendarDays : DateText(d) = c.s

\* the text is a date written day/month/year with a time
IsTimedDate(c) ==
    /\ c.kind = "str"
    /\ Len(c.s) = 19
    /\ \E d \in CalendarDays : DateText(d) = SubSeq(c.s, 1, 10)
    /\ SubSeq(c.s, 11, 19) \in {Morning, Afternoon}

\* the date and time a text stands for
DateOf(c) ==
    DateTime(CHOOSE d \in CalendarDays : DateText(d) = SubSeq(c.s, 1, 10),
             IF Len(c.s) = 10 THEN 0
             ELSE IF SubSeq(c.s, 11, 19) = Morning THEN 9 * 3600
             ELSE 15 * 3600 + 30 * 60)

\* C16: a column of Entered or Sent that wholly parses as day/month/year is
\* read so; otherwise one that wholly parses as day/month/year with time is
\* read so; otherwise the lenient parse runs and every cell it cannot read
\* becomes null. Nothing is raised in any case.
TheoremC16 ==
    PreparedOnce =>
        /\ err = NoErr
        /\ \A col \in {"Entered", "Sent"} :
              LET raw == Column(Loaded.rows, col)
                  out == Column(df.rows, col)
              IN  IF \A i \in Rows : isnull(raw[i]) \/ IsPlainDate(raw[i])
                  THEN \A i \in Rows : out[i] = IF isnull(raw[i]) THEN NaT ELSE DateOf(raw[i])
                  ELSE IF \A i \in Rows : isnull(raw[i]) \/ IsTimedDate(raw[i])
                  THEN \A i \in Rows : out[i] = IF isnull(raw[i]) THEN NaT ELSE DateOf(raw[i])
                  ELSE \A i \in Rows :
                          /\ out[i].kind \in {"datetime", "nat"}
                          /\ ~(IsPlainDate(raw[i]) \/ IsTimedDate(raw[i])) => out[i] = NaT

\* Entered went to the lenient parse, which nulled the cell it could not
\* read, and Sent was read under the format with time
WitnessC16 ==
    /\ PreparedOnce
    /\ \E i, j \in Rows :
          /\ Loaded.rows[i].Entered = Txt(Junk) /\ df.rows[i].Entered = NaT
          /\ df.rows[j].Entered = DateTime(1, 9 * 3600)
          /\ df.rows[j].Sent = DateTime(2, 15 * 3600 + 30 * 60)

\* C17: prepare_data applied to its own result returns the same columns and
\* rows with the same typed values, nulls included.
TheoremC17 ==
    pc = "again" => df = snapshot

\* a prepared table with a date, a time, numbers, a margin and nulls was
\* prepared again
WitnessC17 ==
    /\ pc = "again"
    /\ \E i \in Rows : df.rows[i].Sent.t > 0 /\ ~isnull(df.rows[i].Margin_pct) /\ ~isnull(df.rows[i].List)
    /\ \E i \in Rows : isnull(df.rows[i].Nett) /\ isnull(df.rows[i].Sent)

\* C18: prepare_data leaves the table it was given as it was: after the call
\* the caller's raw table has the columns and the text cells it had.
ClaimC18 ==
    PreparedOnce => raw_df = Loaded

----------------------------------------------------------------------------
(* Claims about the login database and the login gate (SpecAuth, SpecFlow) *)

\* the last step was check_login_db(event.username, event.password)
LoginChecked == event.op = "check_login_db"

\* C21: check_login_db returns True for an admin account only when the row
\* has is_admin = 1, status 'approved' and a set password hash that matches
\* the supplied password; an admin whose status is not 'approved' cannot
\* log in.
ClaimC21 ==
    (LoginChecked /\ event.result = "True" /\ is_admin_user(users, event.username))
        => /\ users[event.username].status = "approved"
           /\ users[event.username].password_hash.set
           /\ checkpw(event.password, users[event.username].password_hash)

\* C26: check_login_db returns True for a non-admin username only if the
\* user exists with status 'approved' and the supplied password is the one
\* most recently set for that user; pending, rejected, deleted and
\* never-registered usernames never authenticate; register_user creates the
\* user as pending, non-admin, with no password.
TheoremC26 ==
    /\ (LoginChecked /\ event.result = "True" /\ ~is_admin_user(users, event.username))
          => /\ users[event.username].exists
             /\ users[event.username].status = "approved"
             /\ recent[event.username] # ""
             /\ recent[event.username] = event.password
    /\ (LoginChecked /\ ~is_admin_user(users, event.username)
          /\ (~users[event.username].exists
                \/ users[event.username].status \in {"pending", "rejected"}))
          => event.result # "True"
    /\ (event.op = "register_user" /\ event.result = "True")
          => users[event.username] =
                [exists |-> TRUE, password_hash |-> NoHash, status |-> "pending", is_admin |-> 0]

\* an approved user who is not an admin logged in with the password set last
WitnessC26 ==
    /\ LoginChecked /\ event.result = "True"
    /\ users[event.username].exists /\ users[event.username].is_admin = 0
    /\ users[event.username].status = "approved"
    /\ recent[event.username] = event.password

\* C27: whenever login_or_register calls set_user_password for a username,
\* that user's stored password hash is empty at the moment of the call, under
\* any interleaving of sessions and admin actions.
ClaimC27 ==
    event.op = "set_user_password" => ~event.was_set

\* C28: the dashboard and the admin panel are reached only in a rerun of a
\* session whose authenticated flag is set, and the admin panel only in a
\* session whose user was an admin at login; the flag is set only by a
\* check_login_db call that returned True; Log Out clears the session state,
\* and that rerun and every rerun of an unauthenticated session stop at the
\* login prompt.
TheoremC28 ==
    /\ [](\A s \in Sessions :
            /\ (event.session = s /\ event.reached # {"login"})
                  => sess[s].authenticated
            /\ (event.session = s /\ "admin_panel" \in event.reached)
                  => sess[s].is_admin
            /\ (event.session = s /\ event.op = "Log Out")
                  => sess[s] = NoSession /\ event.reached = {"login"})
    /\ [][\A s \in Sessions :
            /\ (~sess[s].authenticated /\ sess'[s].authenticated)
                  => /\ event'.op = "check_login_db" /\ event'.session = s
                     /\ event'.result = "True"
                     /\ event'.result = check_login_db(users, event'.username, event'.password)
            /\ (~sess[s].is_admin /\ sess'[s].is_admin)
                  => /\ event'.op = "check_login_db" /\ event'.session = s
                     /\ is_admin_user(users, event'.username)]_vars

\* an admin's session has opened the admin panel
WitnessC28 ==
    \E s \in Sessions :
        /\ event.session = s /\ event.op = "Admin Panel"
        /\ event.reached = {"login", "admin_panel"}
        /\ sess[s].authenticated /\ sess[s].is_admin

----------------------------------------------------------------------------
(* Claims about the results kept in the session (SpecSession)              *)

\* the table the filters leave of the selected file in the current state
CurrentFiltered == apply_filters(selected_df(cache.last_file_name), cache.widgets)

\* C24: after any sequence of uploads, file selections and filter changes
\* the KPI set the dashboard displays is compute_kpis of the selected file's
\* table under the current filters; a stored KPI set is reused only when it
\* was computed from that filtered table.
ClaimC24 ==
    ui.ran => /\ ui.filtered_df = CurrentFiltered
              /\ ui.kpis = compute_kpis(CurrentFiltered)

\* C25: a forecast result shown without recomputation was computed by
\* compute_advanced_metrics on the currently filtered table with the current
\* forecast_days.
ClaimC25 ==
    (ui.ran /\ ui.reused_forecast) =>
        \E o \in AdvancedOutcomes(CurrentFiltered, cache.widgets.forecast_days) :
            ~o.raised /\ ui.adv = o.results

====
